---- MODULE Spec2Model ----
(***************************************************************************)
(* Model of the feed-control reconciliation client.                        *)
(*                                                                         *)
(*   SpecFetch     - one call of fetch_product_data_with_retry             *)
(*                   (backend/bestbuy_provider_python.py), one action per  *)
(*                   iteration of its retry loop.                          *)
(*   SpecReconcile - one call of update_product_in_db, one action per SQL  *)
(*                   statement, with another database client that may      *)
(*                   delete the row in between.                            *)
(*   SpecBatch     - one call of process_products: the main thread, the    *)
(*                   pool threads of each window and the sequential        *)
(*                   update_product_in_db calls.                           *)
(*   SpecFeed      - one call of process_in_batches                        *)
(*                   (backend/python_files/model_phase2.py), one action    *)
(*                   per HTTP request of the feed protocol.                *)
(*                                                                         *)
(* Prices are whole currency units; delays are milliseconds.               *)
(***************************************************************************)
EXTENDS Integers, Sequences, FiniteSets, TLC

(***************************************************************************)
(* Bounds of the model.                                                    *)
(***************************************************************************)
MaxRetries == 3        \* max_retries argument ranges over 0..MaxRetries
MaxSkus == 4           \* process_products gets 0..MaxSkus identifiers
MaxBatchSize == 3      \* batch_size ranges over 1..MaxBatchSize
MaxConcurrent == 2     \* max_concurrent ranges over 1..MaxConcurrent
MaxRows == 2           \* process_in_batches gets 0..MaxRows changed rows
MaxSliceSize == 2      \* its batch_size ranges over 1..MaxSliceSize
MaxSubmitRetries == 3  \* MAX_RETRIES ranges over 1..MaxSubmitRetries
MaxReportCalls == 3    \* nested baixar_relatorio calls that are followed

(***************************************************************************)
(* Program constants.                                                      *)
(***************************************************************************)
stock_level == 20                       \* config default
handling_time_omd == 1
provider_specific_handling_time == 3
update_flag_value == 4
base_delay == 1000
DefaultMaxRetries == 3                  \* max_retries: int = 3
WindowPause == 1                        \* seconds between concurrent batches
BatchPause == 2                         \* seconds between batches
LowPriceThreshold == 5
HighPriceThreshold == 10000
PollMaxAttempts == 20                   \* verificar_status_feed(max_attempts=20)
SubmitDefaultRetryAfter == 300          \* headers.get('Retry-After', '300')
ReportDefaultRetryAfter == 60           \* headers.get('Retry-After', '60')

(***************************************************************************)
(* Values.                                                                 *)
(***************************************************************************)
\* Python's None and an unbound local variable.
None == [none |-> TRUE]
Unbound == [unbound |-> TRUE]

\* Prices the remote API may report: zero, below the low threshold, the two
\* thresholds themselves, an ordinary price, and one above the high threshold.
Prices == {0, 3, LowPriceThreshold, 50, HighPriceThreshold, HighPriceThreshold + 1}

\* Raw availability strings of the API and the ones whose lower-case form is
\* 'instock'.
RawAvailabilities == {"InStock", "instock", "OutOfStock", "SoldOut"}
LowersToInstock == {"InStock", "instock", "INSTOCK", "inStock"}

\* Raw brand values of the API: JSON null, the empty string, a name.
NullBrand == "<null>"
RawBrands == {NullBrand, "", "Acme"}

\* What one HTTP lookup can yield: a well-formed 200 answer, or any failure
\* (timeout, connection error, non-200 status, malformed body).
OkOutcomes ==
    [kind : {"ok"}, availability : RawAvailabilities, price : Prices, brand : RawBrands]
FailOutcome == [kind |-> "fail"]
Outcomes == OkOutcomes \cup {FailOutcome}

(***************************************************************************)
(* fetch_product_data: one lookup, normalised to a product_data dict.      *)
(* Every failure is caught inside and turned into the default dict.        *)
(***************************************************************************)
DefaultProductData(sku) ==
    [sku |-> sku, price |-> 0, brand |-> "", quantity |-> 0,
     availability |-> "outOfStock",
     handlingTime |-> handling_time_omd + provider_specific_handling_time]

fetch_product_data(sku, outcome) ==
    IF outcome.kind = "ok"
    THEN LET is_in_stock == outcome.availability \in LowersToInstock
         IN [sku |-> sku,
             price |-> outcome.price,
             brand |-> IF outcome.brand = NullBrand THEN "" ELSE outcome.brand,
             quantity |-> IF is_in_stock THEN stock_level ELSE 0,
             availability |-> IF is_in_stock THEN "inStock" ELSE "outOfStock",
             handlingTime |-> handling_time_omd + provider_specific_handling_time]
    ELSE DefaultProductData(sku)

(***************************************************************************)
(* analyze_response: the response validator.                               *)
(***************************************************************************)
analyze_response_NoHighRule(product_data) ==
    LET price == product_data.price
        availability == product_data.availability
    IN  IF price = 0 /\ availability = "outOfStock"
        THEN [is_valid |-> FALSE, severity |-> "medium"]
        ELSE IF 0 < price /\ price < LowPriceThreshold
        THEN [is_valid |-> FALSE, severity |-> "medium"]
        ELSE IF price > HighPriceThreshold
        THEN [is_valid |-> FALSE, severity |-> "low"]
        ELSE [is_valid |-> TRUE, severity |-> "low"]

analyze_response(product_data) ==
    LET price == product_data.price
        availability == product_data.availability
    IN  IF availability = "outOfStock" /\ price > 0
        THEN [is_valid |-> FALSE, severity |-> "high"]
        ELSE IF price = 0 /\ availability = "outOfStock"
        THEN [is_valid |-> FALSE, severity |-> "medium"]
        ELSE IF 0 < price /\ price < LowPriceThreshold
        THEN [is_valid |-> FALSE, severity |-> "medium"]
        ELSE IF price > HighPriceThreshold
        THEN [is_valid |-> FALSE, severity |-> "low"]
        ELSE [is_valid |-> TRUE, severity |-> "low"]

(***************************************************************************)
(* is_better_response: does `current` supersede the candidate `previous`.  *)
(***************************************************************************)
is_better_response_AnyPositive(current, previous) ==
    IF previous = None THEN TRUE
    ELSE IF current.price > 0 THEN TRUE
    ELSE IF current.availability = "inStock" /\ previous.availability = "outOfStock"
    THEN TRUE
    ELSE FALSE

is_better_response(current, previous) ==
    IF previous = None THEN TRUE
    ELSE IF current.price > 0 /\ previous.price = 0 THEN TRUE
    ELSE IF current.availability = "inStock" /\ previous.availability = "outOfStock"
    THEN TRUE
    ELSE FALSE

(***************************************************************************)
(* calculate_retry_delay: int(base_delay * attempt * multiplier), with the *)
(* multipliers 1, 1.5, 2 kept as tenths so that int() is a division.       *)
(***************************************************************************)
SeverityTenths(severity) ==
    CASE severity = "low" -> 10
      [] severity = "medium" -> 15
      [] severity = "high" -> 20
      [] OTHER -> 10

calculate_retry_delay_NoSeverity(attempt, severity) ==
    base_delay * attempt

calculate_retry_delay(attempt, severity) ==
    (base_delay * attempt * SeverityTenths(severity)) \div 10

(***************************************************************************)
(* fetch_product_data_with_retry.  The state of one call is a record:      *)
(*   attempt  the loop variable (0 before the first iteration)             *)
(*   pc       "loop", "returned" or "raised"                               *)
(*   sleeps   the delays slept so far, in order                            *)
(*   lookups  number of fetch_product_data calls made                      *)
(* The except branch of the loop body has no transition: nothing in the    *)
(* try block raises, fetch_product_data absorbs every failure itself.      *)
(***************************************************************************)
FetchStart(sku, max_retries) ==
    [sku |-> sku, max_retries |-> max_retries, attempt |-> 0, pc |-> "loop",
     product_data |-> Unbound, analysis |-> None, last_valid_response |-> None,
     result |-> None, sleeps |-> << >>, lookups |-> 0]

\* `a or b` on two dicts-or-None: a non-empty dict is truthy.
PyOr(a, b) == IF a # None THEN a ELSE b

\* lines 125-128: a valid answer is returned at once.
ValidBranch_KeepTrying(st, product_data) ==
    IF st.attempt < st.max_retries
    THEN st
    ELSE [st EXCEPT !.pc = "returned", !.result = product_data]

ValidBranch(st, product_data) ==
    [st EXCEPT !.pc = "returned", !.result = product_data]

\* lines 130-142: keep the better candidate, then sleep or give up.
InvalidBranch_ReturnsLatest(st, product_data, analysis) ==
    LET lvr == IF is_better_response(product_data, st.last_valid_response)
               THEN product_data ELSE st.last_valid_response
        kept == [st EXCEPT !.last_valid_response = lvr]
    IN  IF st.attempt < st.max_retries
        THEN [kept EXCEPT !.sleeps =
                  Append(@, calculate_retry_delay(st.attempt, analysis.severity))]
        ELSE [kept EXCEPT !.pc = "returned", !.result = product_data]

InvalidBranch(st, product_data, analysis) ==
    LET lvr == IF is_better_response(product_data, st.last_valid_response)
               THEN product_data ELSE st.last_valid_response
        kept == [st EXCEPT !.last_valid_response = lvr]
    IN  IF st.attempt < st.max_retries
        THEN [kept EXCEPT !.sleeps =
                  Append(@, calculate_retry_delay(st.attempt, analysis.severity))]
        ELSE [kept EXCEPT !.pc = "returned", !.result = PyOr(lvr, product_data)]

\* One iteration of the for loop, lines 118-142.
RetryIteration(st, outcome) ==
    LET product_data == fetch_product_data(st.sku, outcome)
        analysis == analyze_response(product_data)
        entered == [st EXCEPT !.attempt = @ + 1, !.lookups = @ + 1,
                              !.product_data = product_data,
                              !.analysis = analysis]
    IN  IF analysis.is_valid
        THEN ValidBranch(entered, product_data)
        ELSE InvalidBranch(entered, product_data, analysis)

\* Line 162, reached when range(1, max_retries + 1) is exhausted:
\* `return last_valid_response or product_data`; reading the unbound local
\* product_data raises UnboundLocalError.
LoopExhausted(st) ==
    IF st.last_valid_response # None
    THEN [st EXCEPT !.pc = "returned", !.result = st.last_valid_response]
    ELSE IF st.product_data # Unbound
    THEN [st EXCEPT !.pc = "returned", !.result = st.product_data]
    ELSE [st EXCEPT !.pc = "raised"]

(***************************************************************************)
(* The persisted store: table produtos, one row per sku.  A column may be  *)
(* SQL NULL, which psycopg2 hands to Python as None.                       *)
(***************************************************************************)
NullNum == -1                 \* NULL in a numeric column
NullText == "<null>"          \* NULL in a text column
NoRow == [norow |-> TRUE]     \* fetchone() found nothing

Skus == {"A", "B"}

Rows ==
    [supplier_price : {NullNum, 0, 50},
     quantity : {NullNum, 0, stock_level},
     availability : {NullText, "inStock", "outOfStock"},
     brand : {NullText, "", "Acme"},
     lead_time : {NullNum, handling_time_omd, handling_time_omd + 1},
     lead_time_2 : {provider_specific_handling_time, provider_specific_handling_time + 2},
     handling_time_amz : {NullNum, handling_time_omd + provider_specific_handling_time},
     last_update : {0},
     atualizado : {0, update_flag_value}]

\* `x or 0` and `x or ''` on a column value.
OrZero(x) == IF x = NullNum THEN 0 ELSE x
OrEmpty(x) == IF x = NullText THEN "" ELSE x

(***************************************************************************)
(* update_product_in_db.  The state of one call is a record:               *)
(*   pc            "call" (before the SELECT), "selected" (row read, no    *)
(*                 UPDATE issued yet) or "done"                            *)
(*   current_data  what the SELECT returned                                *)
(*   updates       number of UPDATE statements issued                      *)
(*   raised        a statement raised and the except clause ran            *)
(* Each step takes the call record r and the table dbv and yields both.    *)
(***************************************************************************)
ReconcileCall(product_data) ==
    [pc |-> "call", product_data |-> product_data, current_data |-> NoRow,
     status |-> "", message |-> "", updates |-> 0, raised |-> FALSE]

\* lines 257-265
has_changes_SwappedLeadTimes(current_data, product_data) ==
    \/ OrZero(current_data.supplier_price) # product_data.price
    \/ OrZero(current_data.quantity) # product_data.quantity
    \/ OrEmpty(current_data.availability) # product_data.availability
    \/ OrEmpty(current_data.brand) # product_data.brand
    \/ OrZero(current_data.lead_time) # provider_specific_handling_time
    \/ OrZero(current_data.lead_time_2) # handling_time_omd
    \/ OrZero(current_data.handling_time_amz) # product_data.handlingTime

has_changes(current_data, product_data) ==
    \/ OrZero(current_data.supplier_price) # product_data.price
    \/ OrZero(current_data.quantity) # product_data.quantity
    \/ OrEmpty(current_data.availability) # product_data.availability
    \/ OrEmpty(current_data.brand) # product_data.brand
    \/ OrZero(current_data.lead_time) # handling_time_omd
    \/ OrZero(current_data.lead_time_2) # provider_specific_handling_time
    \/ OrZero(current_data.handling_time_amz) # product_data.handlingTime

\* lines 306-308: a raising statement has no effect on the table.
ExceptBranch(r, dbv) ==
    [rec |-> [r EXCEPT !.pc = "done", !.status = "failed",
                       !.message = "exception", !.raised = TRUE],
     db |-> dbv]

\* lines 252-254
NotFoundBranch_TouchFirst(r, dbv) ==
    [rec |-> [r EXCEPT !.pc = "done", !.status = "failed",
                       !.message = "Product not found", !.updates = @ + 1],
     db |-> dbv]

NotFoundBranch(r, dbv) ==
    [rec |-> [r EXCEPT !.pc = "done", !.status = "failed",
                       !.message = "Product not found"],
     db |-> dbv]

\* lines 243-254: the SELECT; ok = FALSE when the statement raises.
SelectStep(r, dbv, ok) ==
    IF ~ok THEN ExceptBranch(r, dbv)
    ELSE LET current_data == dbv[r.product_data.sku]
             read == [r EXCEPT !.current_data = current_data]
         IN  IF current_data = NoRow
             THEN NotFoundBranch(read, dbv)
             ELSE [rec |-> [read EXCEPT !.pc = "selected"], db |-> dbv]

\* lines 267-273: UPDATE produtos SET last_update WHERE sku.
TouchBranch(r, dbv, t) ==
    LET sku == r.product_data.sku
    IN  [rec |-> [r EXCEPT !.pc = "done", !.status = "no_update", !.updates = @ + 1],
         db |-> IF dbv[sku] = NoRow THEN dbv
                ELSE [dbv EXCEPT ![sku].last_update = t]]

\* lines 279-296: the SET clause of the full UPDATE.
FullUpdateRow_KeepsBrand(row, product_data, t) ==
    [row EXCEPT !.supplier_price = product_data.price,
                !.quantity = product_data.quantity,
                !.availability = product_data.availability,
                !.lead_time = handling_time_omd,
                !.lead_time_2 = provider_specific_handling_time,
                !.handling_time_amz = product_data.handlingTime,
                !.last_update = t,
                !.atualizado = update_flag_value]

FullUpdateRow(row, product_data, t) ==
    [row EXCEPT !.supplier_price = product_data.price,
                !.quantity = product_data.quantity,
                !.availability = product_data.availability,
                !.brand = product_data.brand,
                !.lead_time = handling_time_omd,
                !.lead_time_2 = provider_specific_handling_time,
                !.handling_time_amz = product_data.handlingTime,
                !.last_update = t,
                !.atualizado = update_flag_value]

\* lines 278-304: the full UPDATE and the rowcount test.
UpdateBranch_IgnoresRowcount(r, dbv, t) ==
    LET sku == r.product_data.sku
        issued == [r EXCEPT !.pc = "done", !.updates = @ + 1, !.status = "updated"]
    IN  [rec |-> issued,
         db |-> IF dbv[sku] = NoRow THEN dbv
                ELSE [dbv EXCEPT ![sku] = FullUpdateRow(dbv[sku], r.product_data, t)]]

UpdateBranch(r, dbv, t) ==
    LET sku == r.product_data.sku
        rowcount == IF dbv[sku] = NoRow THEN 0 ELSE 1
        issued == [r EXCEPT !.pc = "done", !.updates = @ + 1]
    IN  IF rowcount = 0
        THEN [rec |-> [issued EXCEPT !.status = "failed", !.message = "No rows updated"],
              db |-> dbv]
        ELSE [rec |-> [issued EXCEPT !.status = "updated"],
              db |-> [dbv EXCEPT ![sku] = FullUpdateRow(dbv[sku], r.product_data, t)]]

\* lines 256-304: compare, then one of the two UPDATE statements at time t;
\* ok = FALSE when that statement raises.
WriteStep(r, dbv, t, ok) ==
    IF ~ok THEN ExceptBranch(r, dbv)
    ELSE IF ~has_changes(r.current_data, r.product_data)
    THEN TouchBranch(r, dbv, t)
    ELSE UpdateBranch(r, dbv, t)

(***************************************************************************)
(* fetch_product_data_with_retry as one call: the loop run to its end on   *)
(* the sequence of outcomes the lookups will yield.                        *)
(***************************************************************************)
RECURSIVE RunFetch(_, _)
RunFetch(st, outcomes) ==
    IF st.pc # "loop" THEN st
    ELSE IF st.attempt < st.max_retries
    THEN RunFetch(RetryIteration(st, outcomes[st.attempt + 1]), outcomes)
    ELSE LoopExhausted(st)

fetch_product_data_with_retry(sku, max_retries, outcomes) ==
    RunFetch(FetchStart(sku, max_retries), outcomes)

(***************************************************************************)
(* process_products.                                                       *)
(***************************************************************************)
\* seq[from:to] with 0-based, end-exclusive indices.
PySlice(seq, from, to) ==
    SubSeq(seq, from + 1, IF to < Len(seq) THEN to ELSE Len(seq))

\* line 318
Batch(skus, i, batch_size) == PySlice(skus, i, i + batch_size)

\* line 325
ConcurrentBatch_OffByOne(batch, j, max_concurrent) ==
    PySlice(batch, j, j + max_concurrent - 1)

ConcurrentBatch_WholeBatch(batch, j, max_concurrent) ==
    PySlice(batch, j, Len(batch))

ConcurrentBatch(batch, j, max_concurrent) ==
    PySlice(batch, j, j + max_concurrent)

\* lines 332-335: one queued future per identifier of the window.
SubmitAll(concurrent_batch) ==
    [k \in 1..Len(concurrent_batch) |->
        [sku |-> concurrent_batch[k], state |-> "queued", result |-> None]]

\* lines 338-339: the as_completed loop ends when every future of the window
\* has been yielded.
AllCollected_FirstCollected(ts) ==
    \E m \in DOMAIN ts : ts[m].state = "collected"

AllCollected(ts) ==
    \A m \in DOMAIN ts : ts[m].state = "collected"

\* lines 343-345: a call statement returns before the loop makes the next
\* call, so a new update_product_in_db call starts only when none is open.
OpenCalls(cs) == {k \in DOMAIN cs : cs[k].pc # "done"}

WriterIdle_Overlapped(cs) == TRUE

WriterIdle(cs) == OpenCalls(cs) = {}

\* lines 343-347: the update loop is left when update_product_in_db has been
\* called for every collected product_data and the last call has returned.
UpdateLoopOver_Pipelined(products_data, cs) == TRUE

UpdateLoopOver(products_data, cs) ==
    Len(cs) = Len(products_data) /\ OpenCalls(cs) = {}

\* lines 359-369
CountStatus(results, statuses) ==
    Cardinality({k \in DOMAIN results : results[k].status \in statuses})

Report_UnchangedOnly(results) ==
    [total_processed |-> Len(results),
     success_count |-> CountStatus(results, {"no_update"}),
     updated_count |-> CountStatus(results, {"updated"}),
     failed_count |-> CountStatus(results, {"failed"}),
     results |-> results]

Report(results) ==
    [total_processed |-> Len(results),
     success_count |-> CountStatus(results, {"updated", "no_update"}),
     updated_count |-> CountStatus(results, {"updated"}),
     failed_count |-> CountStatus(results, {"failed"}),
     results |-> results]

(***************************************************************************)
(* python_files/model_phase2.py: the feed submission.                      *)
(*                                                                         *)
(* enviar_feed.  The state of one call is a record:                        *)
(*   attempt   the loop variable of range(MAX_RETRIES), 0-based            *)
(*   requests  number of POST requests made                                *)
(*   sleeps    the waits so far, in order                                  *)
(*   responses the responses received so far, in order                     *)
(*   feed_id   TRUE when a feed id is returned, FALSE for None             *)
(* A response is 202 with or without a feedId, 429 with or without an      *)
(* integer Retry-After header, another status, or a raised exception.      *)
(***************************************************************************)
SubmitResponses ==
    [kind : {"accepted"}, has_id : BOOLEAN]
        \cup [kind : {"throttled"}, has_header : BOOLEAN, retry_after : {5}]
        \cup {[kind |-> "rejected"], [kind |-> "exception"]}

SubmitStart ==
    [pc |-> "loop", attempt |-> 0, requests |-> 0, sleeps |-> << >>,
     responses |-> << >>, feed_id |-> FALSE]

\* A wait of the Retry-After seconds, or of RETRY_DELAY_SECONDS.
RetryAfterSleep(secs) == [why |-> "Retry-After", secs |-> secs]
RetryDelaySleep == [why |-> "RETRY_DELAY_SECONDS"]

\* lines 172-177
SubmitThrottled_IgnoresHeader(sub, resp, max_retries) ==
    IF sub.attempt < max_retries - 1
    THEN [sub EXCEPT !.attempt = @ + 1,
                     !.sleeps = Append(@, RetryAfterSleep(SubmitDefaultRetryAfter))]
    ELSE [sub EXCEPT !.pc = "returned", !.feed_id = FALSE]

SubmitThrottled(sub, resp, max_retries) ==
    IF sub.attempt < max_retries - 1
    THEN [sub EXCEPT !.attempt = @ + 1,
                     !.sleeps = Append(@, RetryAfterSleep(
                         IF resp.has_header THEN resp.retry_after
                         ELSE SubmitDefaultRetryAfter))]
    ELSE \* the loop ends, lines 189-190
         [sub EXCEPT !.pc = "returned", !.feed_id = FALSE]

\* One iteration of the for loop, lines 161-187.
SubmitIteration(sub, resp, max_retries) ==
    LET sent == [sub EXCEPT !.requests = @ + 1, !.responses = Append(@, resp)]
    IN  CASE resp.kind = "accepted" ->
                 [sent EXCEPT !.pc = "returned", !.feed_id = resp.has_id]
          [] resp.kind = "throttled" -> SubmitThrottled(sent, resp, max_retries)
          [] resp.kind = "rejected" ->
                 [sent EXCEPT !.pc = "returned", !.feed_id = FALSE]
          [] resp.kind = "exception" ->
                 IF sent.attempt < max_retries - 1
                 THEN [sent EXCEPT !.attempt = @ + 1,
                                   !.sleeps = Append(@, RetryDelaySleep)]
                 ELSE [sent EXCEPT !.pc = "returned", !.feed_id = FALSE]

(***************************************************************************)
(* verificar_status_feed.  The state of one call is a record:              *)
(*   attempt      the loop variable of range(1, max_attempts + 1)          *)
(*   requests     number of GET requests made                              *)
(*   refused      how many of them were answered 429, by another status    *)
(*                than 200, or raised                                      *)
(*   terminals    how many reported DONE, CANCELLED or FATAL               *)
(*   last         what the latest request yielded                          *)
(*   feed_result  None, or the feed_status dict returned                   *)
(***************************************************************************)
TerminalStatuses == {"DONE", "CANCELLED", "FATAL"}

PollResponses ==
    [kind : {"status"}, processingStatus : {"IN_PROGRESS"} \cup TerminalStatuses,
     has_doc : BOOLEAN]
        \cup {[kind |-> "throttled"], [kind |-> "unexpected"], [kind |-> "exception"]}

PollStart ==
    [pc |-> "loop", attempt |-> 0, requests |-> 0, refused |-> 0,
     terminals |-> 0, last |-> "", feed_result |-> None]

\* The body did not return: the loop goes on, or is exhausted (lines 236-238).
PollGoOn_NoCap(poll, max_attempts) == poll

PollGoOn(poll, max_attempts) ==
    IF poll.attempt < max_attempts THEN poll
    ELSE [poll EXCEPT !.pc = "returned", !.feed_result = None]

\* One iteration of the for loop, lines 200-234.
PollIteration(poll, resp, max_attempts) ==
    LET sent == [poll EXCEPT !.attempt = @ + 1, !.requests = @ + 1,
                             !.last = IF resp.kind = "status"
                                      THEN resp.processingStatus ELSE resp.kind]
    IN  IF resp.kind = "status"
        THEN IF resp.processingStatus \in TerminalStatuses
             THEN [sent EXCEPT !.pc = "returned", !.terminals = @ + 1,
                               !.feed_result =
                                   [processingStatus |-> resp.processingStatus,
                                    has_doc |-> resp.has_doc]]
             ELSE PollGoOn(sent, max_attempts)
        ELSE \* 429, another status, or an exception: wait and continue
             PollGoOn([sent EXCEPT !.refused = @ + 1], max_attempts)

(***************************************************************************)
(* baixar_relatorio: one call makes the descriptor request and, when that  *)
(* gives a url, the content request.  The state of the retrieval of one    *)
(* slice is a record:                                                      *)
(*   calls     number of baixar_relatorio invocations, nested ones included*)
(*   sleeps    the waits so far, in order                                  *)
(*   request   the request answered last, "descriptor" or "content"        *)
(*   response  what it yielded                                             *)
(*   result    "json" or "text" when a report is returned, "none" for None *)
(***************************************************************************)
DescriptorResponses ==
    [kind : {"throttled"}, has_header : BOOLEAN, retry_after : {5}]
        \cup {[kind |-> "url"], [kind |-> "no_url"], [kind |-> "other"],
              [kind |-> "exception"]}

\* 200 with JSON text, 200 with other text, 429, another status, exception.
ContentResponses == {"json", "text", "throttled", "other", "exception"}

\* What one baixar_relatorio call can meet: the descriptor response and the
\* response the content request gets if it is made.
ReportOutcomes == DescriptorResponses \X ContentResponses

ReportStart ==
    [pc |-> "call", calls |-> 0, sleeps |-> << >>, request |-> "",
     response |-> "", result |-> "none"]

\* lines 253-273: the content request.
ReportContent(rep, content) ==
    LET got == [rep EXCEPT !.request = "content", !.response = content]
    IN  [got EXCEPT !.pc = "returned",
                    !.result = IF content \in {"json", "text"}
                               THEN content ELSE "none"]

\* One invocation, lines 247-286.  On a 429 of the descriptor request it
\* sleeps and invokes itself (line 281): pc stays "call".
ReportInvocation(rep, descriptor, content) ==
    LET entered == [rep EXCEPT !.calls = @ + 1, !.request = "descriptor",
                               !.response = descriptor.kind]
    IN  CASE descriptor.kind = "url" -> ReportContent(entered, content)
          [] descriptor.kind = "throttled" ->
                 [entered EXCEPT !.sleeps = Append(@,
                     IF descriptor.has_header THEN descriptor.retry_after
                     ELSE ReportDefaultRetryAfter)]
          [] OTHER -> [entered EXCEPT !.pc = "returned", !.result = "none"]

\* line 360: "resultFeedDocumentId" in feed_result
HasResultDocument(feed_result) ==
    feed_result # None /\ feed_result.has_doc

\* How the polling of a slice ended.
PollEnd(feed_result) ==
    IF feed_result = None THEN "TIMED_OUT" ELSE feed_result.processingStatus

(***************************************************************************)
(* reset_updated_flag: no connection, or the UPDATE raises, or it commits. *)
(***************************************************************************)
ResetOutcomes == {"committed", "no_connection", "exception"}

(***************************************************************************)
(* State.                                                                  *)
(***************************************************************************)
VARIABLES
    fetcher,     \* the running fetch_product_data_with_retry call
    history,     \* the product_data of every lookup of that call, in order
    transport,   \* for every lookup of that call: did it fail in transport
    db,          \* table produtos: sku -> row or NoRow
    rec,         \* the running update_product_in_db call
    now,         \* the clock read by datetime.now()
    run,         \* the main thread inside process_products
    tasks,       \* the futures of the current ThreadPoolExecutor
    calls,       \* the update_product_in_db calls of the current window
    fetched,     \* sku -> number of fetch_product_data_with_retry calls started
    reconciled,  \* sku -> number of update_product_in_db calls started
    feed         \* the process_in_batches call of model_phase2.py

vars == <<fetcher, history, transport, db, rec, now, run, tasks, calls, fetched,
          reconciled, feed>>
fetchVars == <<fetcher, history, transport>>
storeVars == <<db, rec, now>>
batchVars == <<run, tasks, calls, fetched, reconciled>>
NoFeed == [pc |-> "idle"]

EmptyDb == [s \in Skus |-> NoRow]
NoCall == ReconcileCall(None)
NoRun == [pc |-> "idle"]
NoCounts == [s \in Skus |-> 0]
BatchIdle ==
    /\ run = NoRun /\ tasks = << >> /\ calls = << >>
    /\ fetched = NoCounts /\ reconciled = NoCounts

(***************************************************************************)
(* SpecFetch.                                                              *)
(***************************************************************************)
FetchInit ==
    /\ \E m \in 0..MaxRetries : fetcher = FetchStart("X", m)
    /\ history = << >> /\ transport = << >>
    /\ db = EmptyDb /\ rec = NoCall /\ now = 1
    /\ BatchIdle /\ feed = NoFeed

Attempt ==
    /\ fetcher.pc = "loop"
    /\ fetcher.attempt < fetcher.max_retries
    /\ \E outcome \in Outcomes :
          /\ fetcher' = RetryIteration(fetcher, outcome)
          /\ history' = Append(history, fetch_product_data(fetcher.sku, outcome))
          /\ transport' = Append(transport, outcome.kind = "fail")
    /\ UNCHANGED <<storeVars, batchVars, feed>>

FallThrough ==
    /\ fetcher.pc = "loop"
    /\ fetcher.attempt >= fetcher.max_retries
    /\ fetcher' = LoopExhausted(fetcher)
    /\ UNCHANGED <<history, transport, storeVars, batchVars, feed>>

FetchNext == Attempt \/ FallThrough

SpecFetch == FetchInit /\ [][FetchNext]_vars

(***************************************************************************)
(* SpecReconcile: one call of update_product_in_db on an arbitrary row.    *)
(* Between the SELECT and the UPDATE another client of the database may    *)
(* delete the row.                                                         *)
(***************************************************************************)
ReconcileOutcomes ==
    {o \in OkOutcomes : o.price \in {0, 50} /\ o.availability \in {"InStock", "OutOfStock"}}
        \cup {FailOutcome}
ReconcileAnswers ==
    {fetch_product_data(sku, o) : sku \in Skus, o \in ReconcileOutcomes}

ReconcileInit ==
    /\ fetcher = FetchStart("X", 0) /\ history = << >> /\ transport = << >>
    /\ now = 1
    /\ BatchIdle /\ feed = NoFeed
    /\ \E product_data \in ReconcileAnswers, row \in Rows \cup {NoRow} :
          /\ rec = ReconcileCall(product_data)
          /\ db = [EmptyDb EXCEPT ![product_data.sku] = row]

Select ==
    /\ rec.pc = "call"
    /\ \E ok \in BOOLEAN :
          LET next == SelectStep(rec, db, ok)
          IN  rec' = next.rec /\ db' = next.db
    /\ UNCHANGED <<now, fetchVars, feed, batchVars>>

Write ==
    /\ rec.pc = "selected"
    /\ \E ok \in BOOLEAN :
          LET next == WriteStep(rec, db, now, ok)
          IN  rec' = next.rec /\ db' = next.db
    /\ now' = now + 1
    /\ UNCHANGED <<fetchVars, feed, batchVars>>

ExternalDelete ==
    /\ rec.pc = "selected"
    /\ db[rec.product_data.sku] # NoRow
    /\ db' = [db EXCEPT ![rec.product_data.sku] = NoRow]
    /\ UNCHANGED <<rec, now, fetchVars, feed, batchVars>>

ReconcileNext == Select \/ Write \/ ExternalDelete

SpecReconcile == ReconcileInit /\ [][ReconcileNext]_vars

(***************************************************************************)
(* SpecBatch: one call of process_products.  The main thread walks the two *)
(* nested loops; the pool threads run fetch_product_data_with_retry.       *)
(*   run.pc  "batch"    head of the outer loop (line 317)                  *)
(*           "window"   head of the inner loop (line 324)                  *)
(*           "collect"  in the as_completed loop (lines 338-339)           *)
(*           "write"    in the update loop (lines 343-345)                 *)
(*           "count"    after the loops (line 359), "done" after return    *)
(***************************************************************************)
SkuPattern == <<"A", "B", "A", "A", "B", "B">>
SkuLists == {SubSeq(SkuPattern, 1, n) : n \in 0..MaxSkus}

BatchOutcomes ==
    {[kind |-> "ok", availability |-> "InStock", price |-> 50, brand |-> "Acme"],
     [kind |-> "ok", availability |-> "OutOfStock", price |-> 50, brand |-> "Acme"],
     FailOutcome}

\* A row that already holds the in-stock answer.
SyncedRow ==
    [supplier_price |-> 50, quantity |-> stock_level, availability |-> "inStock",
     brand |-> "Acme", lead_time |-> handling_time_omd,
     lead_time_2 |-> provider_specific_handling_time,
     handling_time_amz |-> handling_time_omd + provider_specific_handling_time,
     last_update |-> 0, atualizado |-> 0]

BatchInit ==
    /\ fetcher = FetchStart("X", 0) /\ history = << >> /\ transport = << >>
    /\ rec = NoCall /\ now = 1
    /\ db \in [Skus -> {NoRow, SyncedRow}]
    /\ \E skus \in SkuLists, batch_size \in 1..MaxBatchSize,
          max_concurrent \in 1..MaxConcurrent :
          run = [pc |-> "batch", skus |-> skus, batch_size |-> batch_size,
                 max_concurrent |-> max_concurrent, i |-> 0, j |-> 0,
                 batch |-> << >>, products_data |-> << >>,
                 batch_results |-> << >>, results |-> << >>,
                 pauses |-> << >>, report |-> None]
    /\ tasks = << >> /\ calls = << >>
    /\ fetched = NoCounts /\ reconciled = NoCounts
    /\ feed = NoFeed

\* line 317-318: the outer loop takes the next batch ...
EnterBatch ==
    /\ run.pc = "batch"
    /\ run.i < Len(run.skus)
    /\ run' = [run EXCEPT !.pc = "window", !.j = 0,
                          !.batch = Batch(run.skus, run.i, run.batch_size)]
    /\ UNCHANGED <<tasks, calls, fetched, reconciled, storeVars, fetchVars, feed>>

\* ... or is exhausted.
LeaveBatches ==
    /\ run.pc = "batch"
    /\ run.i >= Len(run.skus)
    /\ run' = [run EXCEPT !.pc = "count"]
    /\ UNCHANGED <<tasks, calls, fetched, reconciled, storeVars, fetchVars, feed>>

\* lines 324-337: the inner loop takes the next window, opens a pool and
\* submits one fetch per identifier.
SubmitWindow ==
    /\ run.pc = "window"
    /\ run.j < Len(run.batch)
    /\ tasks' = SubmitAll(ConcurrentBatch(run.batch, run.j, run.max_concurrent))
    /\ calls' = << >>
    /\ run' = [run EXCEPT !.pc = IF tasks' = << >> THEN "write" ELSE "collect",
                          !.products_data = << >>, !.batch_results = << >>]
    /\ UNCHANGED <<fetched, reconciled, storeVars, fetchVars, feed>>

\* lines 353-356: the inner loop is exhausted; pause if another batch follows.
EndBatch ==
    /\ run.pc = "window"
    /\ run.j >= Len(run.batch)
    /\ run' = [run EXCEPT !.pc = "batch", !.i = @ + run.batch_size,
                          !.pauses = IF run.i + run.batch_size < Len(run.skus)
                                     THEN Append(@, BatchPause) ELSE @]
    /\ UNCHANGED <<tasks, calls, fetched, reconciled, storeVars, fetchVars, feed>>

Running == {k \in DOMAIN tasks : tasks[k].state = "running"}

\* A pool thread (at most max_workers of them) takes a queued future.
TaskStart(k) ==
    /\ tasks[k].state = "queued"
    /\ Cardinality(Running) < run.max_concurrent
    /\ tasks' = [tasks EXCEPT ![k].state = "running"]
    /\ fetched' = [fetched EXCEPT ![tasks[k].sku] = @ + 1]
    /\ UNCHANGED <<run, calls, reconciled, storeVars, fetchVars, feed>>

\* The fetch_product_data_with_retry call of a pool thread ends.
TaskFinish(k) ==
    /\ tasks[k].state = "running"
    /\ \E outcomes \in [1..DefaultMaxRetries -> BatchOutcomes] :
          LET call == fetch_product_data_with_retry(tasks[k].sku, DefaultMaxRetries, outcomes)
          IN  /\ call.pc = "returned"
              /\ tasks' = [tasks EXCEPT ![k].state = "finished", ![k].result = call.result]
    /\ UNCHANGED <<run, calls, fetched, reconciled, storeVars, fetchVars, feed>>

\* lines 338-339: as_completed yields a finished future, its result is kept.
Collect(k) ==
    /\ run.pc = "collect"
    /\ tasks[k].state = "finished"
    /\ tasks' = [tasks EXCEPT ![k].state = "collected"]
    /\ run' = [run EXCEPT !.products_data = Append(@, tasks[k].result),
                          !.pc = IF AllCollected(tasks')
                                 THEN "write" ELSE "collect"]
    /\ UNCHANGED <<calls, fetched, reconciled, storeVars, fetchVars, feed>>

\* A finished call hands its result dict to the loop (line 345).
Returns(call) == [status |-> call.status, message |-> call.message]
AfterCall(r, call) ==
    IF call.pc = "done"
    THEN [r EXCEPT !.batch_results = Append(@, Returns(call))]
    ELSE r

\* line 344: the loop calls update_product_in_db for the next product_data;
\* the call runs its SELECT.
BatchSelect ==
    /\ run.pc = "write"
    /\ Len(calls) < Len(run.products_data)
    /\ WriterIdle(calls)
    /\ \E ok \in BOOLEAN :
          LET product_data == run.products_data[Len(calls) + 1]
              next == SelectStep(ReconcileCall(product_data), db, ok)
          IN  /\ calls' = Append(calls, next.rec)
              /\ db' = next.db
              /\ run' = AfterCall(run, next.rec)
              /\ reconciled' = [reconciled EXCEPT ![product_data.sku] = @ + 1]
    /\ UNCHANGED <<tasks, fetched, rec, now, fetchVars, feed>>

\* The open call compares and issues its UPDATE.
BatchWrite(k) ==
    /\ calls[k].pc = "selected"
    /\ \E ok \in BOOLEAN :
          LET next == WriteStep(calls[k], db, now, ok)
          IN  /\ calls' = [calls EXCEPT ![k] = next.rec]
              /\ db' = next.db
              /\ run' = AfterCall(run, next.rec)
    /\ now' = now + 1
    /\ UNCHANGED <<tasks, fetched, reconciled, rec, fetchVars, feed>>

\* lines 347-351: the update loop is over; extend results, leave the pool,
\* pause if another window follows.
EndWindow ==
    /\ run.pc = "write"
    /\ UpdateLoopOver(run.products_data, calls)
    /\ run' = [run EXCEPT !.pc = "window", !.j = @ + run.max_concurrent,
                          !.results = @ \o run.batch_results,
                          !.pauses = IF run.j + run.max_concurrent < Len(run.batch)
                                     THEN Append(@, WindowPause) ELSE @]
    /\ tasks' = << >>
    /\ calls' = << >>
    /\ UNCHANGED <<fetched, reconciled, storeVars, fetchVars, feed>>

\* lines 358-369
Count ==
    /\ run.pc = "count"
    /\ run' = [run EXCEPT !.pc = "done", !.report = Report(run.results)]
    /\ UNCHANGED <<tasks, calls, fetched, reconciled, storeVars, fetchVars, feed>>

BatchNext ==
    \/ EnterBatch \/ LeaveBatches \/ SubmitWindow \/ EndBatch
    \/ \E k \in DOMAIN tasks : TaskStart(k) \/ TaskFinish(k) \/ Collect(k)
    \/ BatchSelect
    \/ \E k \in DOMAIN calls : BatchWrite(k)
    \/ EndWindow \/ Count

SpecBatch == BatchInit /\ [][BatchNext]_vars

(***************************************************************************)
(* SpecFeed: one call of process_in_batches(data, batch_size).             *)
(*   feed.pc  "start"   lines 309-322                                      *)
(*            "slice"   head of the for loop (line 325)                    *)
(*            "create", "upload"  before create_feed_document / upload     *)
(*            "submit"  inside or just after enviar_feed                   *)
(*            "poll"    inside or just after verificar_status_feed         *)
(*            "report"  inside or just after baixar_relatorio              *)
(*            "done"    returned                                           *)
(*   feed.steps    the finished step calls of the current slice, in order  *)
(*   feed.log      one entry per slice already left: where it ended, its   *)
(*                 steps, whether baixar_relatorio was called and whether  *)
(*                 it returned a report                                    *)
(*   feed.pending  the extracted rows still carry the atualizado marker    *)
(* save_feed_locally_phase2 only writes an audit file and is left out.     *)
(***************************************************************************)
FeedInit ==
    /\ fetcher = FetchStart("X", 0) /\ history = << >> /\ transport = << >>
    /\ db = EmptyDb /\ rec = NoCall /\ now = 1
    /\ BatchIdle
    /\ \E n \in 0..MaxRows, batch_size \in 1..MaxSliceSize,
          max_retries \in 1..MaxSubmitRetries :
          feed = [pc |-> "start", n |-> n, batch_size |-> batch_size,
                  max_retries |-> max_retries,
                  num_batches |-> (n + batch_size - 1) \div batch_size,
                  batch_num |-> 0, success |-> TRUE,
                  sub |-> SubmitStart, poll |-> PollStart,
                  feed_result |-> None, report |-> ReportStart,
                  steps |-> << >>,
                  log |-> << >>, pending |-> TRUE, reset |-> "not called",
                  result |-> FALSE]

\* The step of the state machine a slice ended in.
StageCall(stage) ==
    IF stage \in {"build", "create", "upload", "submit"} THEN stage ELSE "poll"

\* A finished call of one of the slice's steps and whether the driver went on.
Step(call, ok) == [call |-> call, ok |-> ok]

\* The steps of a slice that failed at `stage`.
FailedSteps(f, stage) ==
    IF stage = "build" THEN f.steps
    ELSE Append(f.steps, Step(StageCall(stage), FALSE))

\* `success = False; continue` after the slice ended at `stage`.
SliceFailed_GoesOn(f, stage) ==
    IF stage = "create"
    THEN [f EXCEPT !.success = FALSE, !.pc = "upload",
                   !.steps = FailedSteps(f, stage)]
    ELSE [f EXCEPT !.success = FALSE, !.pc = "slice", !.batch_num = @ + 1,
              !.sub = SubmitStart, !.poll = PollStart, !.feed_result = None,
              !.steps = << >>,
              !.log = Append(@, [end |-> stage, has_doc |-> FALSE, report |-> FALSE,
                                 retrieved |-> FALSE,
                                 steps |-> FailedSteps(f, stage)])]

SliceFailed(f, stage) ==
    [f EXCEPT !.success = FALSE, !.pc = "slice", !.batch_num = @ + 1,
              !.sub = SubmitStart, !.poll = PollStart, !.feed_result = None,
              !.steps = << >>,
              !.log = Append(@, [end |-> stage, has_doc |-> FALSE, report |-> FALSE,
                                 retrieved |-> FALSE,
                                 steps |-> FailedSteps(f, stage)])]

\* The slice went through result retrieval; the value baixar_relatorio
\* returned is dropped and success is left as it is.
SliceThrough_NeedsReport(f) ==
    [f EXCEPT !.pc = "slice", !.batch_num = @ + 1,
              !.success = @ /\ f.report.result # "none",
              !.feed_result = None, !.report = ReportStart, !.steps = << >>,
              !.log = Append(@, [end |-> PollEnd(f.feed_result),
                                 has_doc |-> TRUE, report |-> TRUE,
                                 retrieved |-> f.report.result # "none",
                                 steps |-> f.steps])]

SliceThrough(f) ==
    [f EXCEPT !.pc = "slice", !.batch_num = @ + 1,
              !.feed_result = None, !.report = ReportStart, !.steps = << >>,
              !.log = Append(@, [end |-> PollEnd(f.feed_result),
                                 has_doc |-> TRUE, report |-> TRUE,
                                 retrieved |-> f.report.result # "none",
                                 steps |-> f.steps])]

FeedFrame == UNCHANGED <<fetchVars, storeVars, batchVars>>

\* lines 311-312
EmptyData ==
    /\ feed.pc = "start" /\ feed.n = 0
    /\ feed' = [feed EXCEPT !.pc = "done", !.result = FALSE]
    /\ FeedFrame

\* lines 320-322
GetToken ==
    /\ feed.pc = "start" /\ feed.n > 0
    /\ \E access_token \in BOOLEAN :
          feed' = IF access_token
                  THEN [feed EXCEPT !.pc = "slice", !.batch_num = 1]
                  ELSE [feed EXCEPT !.pc = "done", !.result = FALSE]
    /\ FeedFrame

\* lines 325-336: create_inventory_feed_phase2 gives a feed or None.
BuildFeed ==
    /\ feed.pc = "slice" /\ feed.batch_num <= feed.num_batches
    /\ \E built \in BOOLEAN :
          feed' = IF built THEN [feed EXCEPT !.pc = "create"]
                  ELSE SliceFailed(feed, "build")
    /\ FeedFrame

\* lines 342-345 with create_feed_document
CreateDocument ==
    /\ feed.pc = "create"
    /\ \E resp \in {"201", "other", "exception"} :
          feed' = IF resp = "201"
                  THEN [feed EXCEPT !.pc = "upload",
                                    !.steps = Append(@, Step("create", TRUE))]
                  ELSE SliceFailed(feed, "create")
    /\ FeedFrame

\* lines 348-350 with upload_feed_to_s3
Upload ==
    /\ feed.pc = "upload"
    /\ \E resp \in {"200", "other", "exception"} :
          feed' = IF resp = "200"
                  THEN [feed EXCEPT !.pc = "submit", !.sub = SubmitStart,
                                    !.steps = Append(@, Step("upload", TRUE))]
                  ELSE SliceFailed(feed, "upload")
    /\ FeedFrame

\* one POST of enviar_feed
SubmitRequest ==
    /\ feed.pc = "submit" /\ feed.sub.pc = "loop"
    /\ \E resp \in SubmitResponses :
          feed' = [feed EXCEPT !.sub = SubmitIteration(feed.sub, resp, feed.max_retries)]
    /\ FeedFrame

\* lines 353-356
CheckFeedId ==
    /\ feed.pc = "submit" /\ feed.sub.pc = "returned"
    /\ feed' = IF feed.sub.feed_id
               THEN [feed EXCEPT !.pc = "poll", !.sub = SubmitStart, !.poll = PollStart,
                                 !.steps = Append(@, Step("submit", TRUE))]
               ELSE SliceFailed(feed, "submit")
    /\ FeedFrame

\* one GET of verificar_status_feed
PollRequest ==
    /\ feed.pc = "poll" /\ feed.poll.pc = "loop"
    /\ \E resp \in PollResponses :
          feed' = [feed EXCEPT !.poll = PollIteration(feed.poll, resp, PollMaxAttempts)]
    /\ FeedFrame

\* lines 359-364
CheckFeedResult ==
    /\ feed.pc = "poll" /\ feed.poll.pc = "returned"
    /\ feed' = IF HasResultDocument(feed.poll.feed_result)
               THEN [feed EXCEPT !.pc = "report", !.poll = PollStart,
                                 !.feed_result = feed.poll.feed_result,
                                 !.report = ReportStart,
                                 !.steps = Append(@, Step("poll", TRUE))]
               ELSE SliceFailed(feed, PollEnd(feed.poll.feed_result))
    /\ FeedFrame

\* one invocation of baixar_relatorio; on a 429 of the descriptor request
\* it sleeps and invokes itself, otherwise it returns.  Only MaxReportCalls
\* invocations of one retrieval are followed.
ReportCall ==
    /\ feed.pc = "report" /\ feed.report.pc = "call"
    /\ \E outcome \in ReportOutcomes :
          LET next == ReportInvocation(feed.report, outcome[1], outcome[2])
          IN  /\ next.pc = "call" => next.calls < MaxReportCalls
              /\ feed' = [feed EXCEPT !.report = next]
    /\ FeedFrame

\* line 362 is over: the returned value is not used, the loop goes on.
ReportReturn ==
    /\ feed.pc = "report" /\ feed.report.pc = "returned"
    /\ feed' = SliceThrough(feed)
    /\ FeedFrame

\* lines 366-370, success: reset_updated_flag is called, its value ignored.
FinishReset ==
    /\ feed.pc = "slice" /\ feed.batch_num > feed.num_batches
    /\ feed.success
    /\ \E outcome \in ResetOutcomes :
          feed' = [feed EXCEPT !.pc = "done", !.result = TRUE, !.reset = outcome,
                               !.pending = (outcome # "committed")]
    /\ FeedFrame

\* lines 366-370, not success
FinishNoReset ==
    /\ feed.pc = "slice" /\ feed.batch_num > feed.num_batches
    /\ ~feed.success
    /\ feed' = [feed EXCEPT !.pc = "done", !.result = FALSE]
    /\ FeedFrame

FeedNext ==
    \/ EmptyData \/ GetToken \/ BuildFeed \/ CreateDocument \/ Upload
    \/ SubmitRequest \/ CheckFeedId \/ PollRequest \/ CheckFeedResult
    \/ ReportCall \/ ReportReturn \/ FinishReset \/ FinishNoReset

SpecFeed == FeedInit /\ [][FeedNext]_vars

(***************************************************************************)
(* Properties of fetch_product_data_with_retry (SpecFetch).                *)
(***************************************************************************)
Returned == fetcher.pc = "returned"
IsInvalid(product_data) == ~analyze_response(product_data).is_valid
AllInvalid == \A i \in 1..Len(history) : IsInvalid(history[i])

\* C1: for every max_retries >= 0 and every sequence of remote outcomes the
\* call ends by returning a product_data dict and never raises to its caller.
\* Stated as: the call is never in the state "raised".
C1_NeverRaises == fetcher.pc # "raised"

\* C2: at most max_retries lookups are issued, and the first answer that is
\* classified valid is the last lookup of the call and is exactly what the
\* call returns; only the attempts before it were followed by a sleep.
C2_ValidReturnsImmediately ==
    /\ fetcher.lookups <= fetcher.max_retries
    /\ fetcher.lookups = Len(history)
    /\ \A i \in 1..Len(history) :
          ~IsInvalid(history[i]) =>
              /\ i = Len(history)
              /\ Returned
              /\ fetcher.result = history[i]
              /\ Len(fetcher.sleeps) = i - 1

C2_Witness ==
    /\ Returned
    /\ Len(history) = 2
    /\ fetcher.max_retries = 3
    /\ ~IsInvalid(history[2])
    /\ fetcher.result = history[2]

\* The best candidate of a non-empty sequence of invalid answers as the
\* specification words it: the first answer, replaced by a later one exactly
\* when the later one has a positive price and the candidate a zero price, or
\* the later one is in stock and the candidate out of stock.
RECURSIVE BestCandidate(_)
BestCandidate(h) ==
    IF Len(h) = 1 THEN h[1]
    ELSE LET c == BestCandidate(SubSeq(h, 1, Len(h) - 1))
             x == h[Len(h)]
         IN  IF \/ x.price > 0 /\ c.price = 0
                \/ x.availability = "inStock" /\ c.availability = "outOfStock"
             THEN x ELSE c

\* C3: when all max_retries (>= 1) attempts yield invalid answers the call
\* returns the best candidate of those answers.
C3_ReturnsBestCandidate ==
    (Returned /\ fetcher.max_retries >= 1
        /\ Len(history) = fetcher.max_retries /\ AllInvalid)
    => fetcher.result = BestCandidate(history)

C3_Witness ==
    /\ Returned /\ fetcher.max_retries = 3 /\ Len(history) = 3 /\ AllInvalid
    /\ history[1].price = 0 /\ history[2].price > 0 /\ history[3].price > 0
    /\ history[3] # history[2]
    /\ fetcher.result = history[2]

\* Twice the severity multiplier of the specification: LOW=1, MEDIUM=1.5, HIGH=2.
TwiceMultiplier(severity) ==
    IF severity = "high" THEN 4 ELSE IF severity = "medium" THEN 3 ELSE 2

InvalidBeforeLast ==
    {k \in 1..Len(history) : IsInvalid(history[k]) /\ k < fetcher.max_retries}

\* C4: every invalid attempt k < max_retries is followed by exactly one sleep
\* of 1000 ms * k * multiplier(severity of attempt k's verdict), there is no
\* other sleep (none after attempt max_retries), and outOfStock/$50 followed
\* by inStock/$50 returns inStock/$50 after the single sleep of 2000 ms.
C4_BackoffSleeps ==
    /\ Len(fetcher.sleeps) = Cardinality(InvalidBeforeLast)
    /\ Len(fetcher.sleeps) <= Len(history)
    /\ \A k \in InvalidBeforeLast :
          2 * fetcher.sleeps[k] =
              1000 * k * TwiceMultiplier(analyze_response(history[k]).severity)
    /\ (Len(history) = 2
          /\ history[1].availability = "outOfStock" /\ history[1].price = 50
          /\ history[2].availability = "inStock" /\ history[2].price = 50)
       => /\ Returned
          /\ fetcher.result = history[2]
          /\ fetcher.sleeps = <<2000>>

C4_Witness ==
    /\ Returned /\ Len(history) = 2
    /\ history[1].availability = "outOfStock" /\ history[1].price = 50
    /\ history[2].availability = "inStock" /\ history[2].price = 50
    /\ fetcher.sleeps = <<2000>>

\* C5: the verdict of analyze_response on the answer of the latest attempt
\* follows the rules in order, first match wins: outOfStock with price > 0 is
\* invalid/high whatever the price; outOfStock with price 0 is
\* invalid/medium; otherwise 0 < price < 5 is invalid/medium; otherwise
\* price > 10000 is invalid/low; every other answer is valid.
C5_ClassifyRules ==
    fetcher.attempt >= 1 =>
        LET p == fetcher.product_data.price
            oos == fetcher.product_data.availability = "outOfStock"
            v == fetcher.analysis
        IN  /\ (oos /\ p > 0) => (~v.is_valid /\ v.severity = "high")
            /\ (oos /\ p = 0) => (~v.is_valid /\ v.severity = "medium")
            /\ (~oos /\ 0 < p /\ p < 5) => (~v.is_valid /\ v.severity = "medium")
            /\ (~oos /\ p > 10000) => (~v.is_valid /\ v.severity = "low")
            /\ (~oos /\ (p = 0 \/ (5 <= p /\ p <= 10000))) => v.is_valid

C5_Witness ==
    /\ fetcher.attempt >= 1
    /\ fetcher.product_data.availability = "outOfStock"
    /\ fetcher.product_data.price = 3
    /\ fetcher.analysis = [is_valid |-> FALSE, severity |-> "high"]

(***************************************************************************)
(* Properties of update_product_in_db (SpecReconcile).                     *)
(***************************************************************************)
Finished == rec.pc = "done"
StoredRow == db[rec.product_data.sku]

\* C8: a call whose SELECT finds no row for the identifier returns
\* failed("Product not found"), issues no UPDATE statement and leaves the
\* identifier without a row.
C8_NotFoundNoWrite ==
    (Finished /\ ~rec.raised /\ rec.current_data = NoRow)
    => /\ rec.status = "failed"
       /\ rec.message = "Product not found"
       /\ rec.updates = 0
       /\ StoredRow = NoRow

C8_Witness ==
    /\ Finished
    /\ rec.current_data = NoRow
    /\ rec.message = "Product not found"
    /\ StoredRow = NoRow

\* The row holds exactly the incoming answer in every compared column.
RowEqualsAnswer(row, product_data) ==
    /\ row.supplier_price = product_data.price
    /\ row.quantity = product_data.quantity
    /\ row.availability = product_data.availability
    /\ row.brand = product_data.brand
    /\ row.lead_time = handling_time_omd
    /\ row.lead_time_2 = provider_specific_handling_time
    /\ row.handling_time_amz = product_data.handlingTime

\* C9: when the row read equals the incoming answer in every compared column
\* the call returns no_update (if no statement raised) and every column of
\* the row other than last_update, the atualizado flag included, is as it
\* was read.
C9_UnchangedTouchOnly ==
    (Finished /\ rec.current_data # NoRow
        /\ RowEqualsAnswer(rec.current_data, rec.product_data))
    => /\ ~rec.raised => rec.status = "no_update"
       /\ StoredRow # NoRow =>
             StoredRow = [rec.current_data EXCEPT !.last_update = StoredRow.last_update]

C9_Witness ==
    /\ Finished /\ rec.status = "no_update"
    /\ rec.current_data # NoRow
    /\ RowEqualsAnswer(rec.current_data, rec.product_data)
    /\ rec.current_data.atualizado = 0
    /\ StoredRow # NoRow
    /\ StoredRow.last_update > rec.current_data.last_update
    /\ StoredRow.atualizado = 0

\* C10: whenever the call returns updated, the row afterwards holds the
\* answer's price, quantity, availability and brand, the two configured
\* handling constants in the lead-time columns, the answer's handlingTime in
\* the combined column, a later last_update and the configured update flag;
\* columns that compared equal are rewritten to the incoming values too.
C10_UpdatedRowMatchesAnswer ==
    rec.status = "updated"
    => /\ Finished
       /\ StoredRow # NoRow
       /\ StoredRow.supplier_price = rec.product_data.price
       /\ StoredRow.quantity = rec.product_data.quantity
       /\ StoredRow.availability = rec.product_data.availability
       /\ StoredRow.brand = rec.product_data.brand
       /\ StoredRow.lead_time = handling_time_omd
       /\ StoredRow.lead_time_2 = provider_specific_handling_time
       /\ StoredRow.handling_time_amz = rec.product_data.handlingTime
       /\ StoredRow.last_update > rec.current_data.last_update
       /\ StoredRow.atualizado = update_flag_value

\* Only the price differs; the brand is NULL in the row and '' in the answer,
\* which compare equal, and the flag was not set before.
C10_Witness ==
    /\ rec.status = "updated"
    /\ rec.current_data.supplier_price # rec.product_data.price
    /\ rec.current_data.quantity = rec.product_data.quantity
    /\ rec.current_data.availability = rec.product_data.availability
    /\ rec.current_data.brand = NullText /\ rec.product_data.brand = ""
    /\ rec.current_data.lead_time = handling_time_omd
    /\ rec.current_data.lead_time_2 = provider_specific_handling_time
    /\ rec.current_data.handling_time_amz = rec.product_data.handlingTime
    /\ rec.current_data.atualizado = 0
    /\ StoredRow.brand = ""
    /\ StoredRow.atualizado = update_flag_value

(***************************************************************************)
(* Properties of process_products (SpecBatch).                             *)
(***************************************************************************)
Occurrences(seq, s) == Cardinality({k \in DOMAIN seq : seq[k] = s})

\* C6: whatever batch_size >= 1 and max_concurrent >= 1, every input
\* identifier is fetched once and reconciled once per occurrence in the
\* input, never more, and the final report's total_processed and result
\* list length equal the number of input identifiers.
C6_EveryIdentifierOnce ==
    /\ \A s \in Skus :
          /\ fetched[s] <= Occurrences(run.skus, s)
          /\ reconciled[s] <= fetched[s]
    /\ run.pc = "done" =>
          /\ run.report.total_processed = Len(run.skus)
          /\ Len(run.report.results) = Len(run.skus)
          /\ \A s \in Skus :
                /\ fetched[s] = Occurrences(run.skus, s)
                /\ reconciled[s] = Occurrences(run.skus, s)

\* Two batches, the first of them split into two windows.
C6_Witness ==
    /\ run.pc = "done"
    /\ Len(run.skus) = 4 /\ run.batch_size = 3 /\ run.max_concurrent = 2
    /\ run.report.total_processed = 4
    /\ Len(run.pauses) = 2

\* C7: at most one update_product_in_db call is in progress at any time; no
\* call starts while another has read its row and not yet written.
C7_WritesSerialized == Cardinality(OpenCalls(calls)) <= 1

C7_Witness ==
    /\ Len(calls) = 2
    /\ calls[1].pc = "done" /\ calls[1].updates = 1
    /\ calls[2].pc = "selected"

\* C11: in the difference path the call returns updated only if the UPDATE
\* affected the row; when the row was deleted between the SELECT and the
\* UPDATE (zero rows affected) it returns failed("No rows updated").
C11_ZeroRowsIsFailure ==
    (Finished /\ ~rec.raised /\ rec.current_data # NoRow
        /\ has_changes(rec.current_data, rec.product_data))
    => IF StoredRow = NoRow
       THEN rec.status = "failed" /\ rec.message = "No rows updated"
       ELSE rec.status = "updated"

C11_Witness ==
    /\ Finished /\ rec.current_data # NoRow
    /\ rec.updates = 1
    /\ StoredRow = NoRow
    /\ rec.status = "failed" /\ rec.message = "No rows updated"

\* C22: in the final report every per-item status is exactly one of
\* updated, no_update (unchanged) or failed, success_count counts the updated
\* and the unchanged items, updated_count <= success_count, and
\* updated_count + (success_count - updated_count) + failed_count equals
\* total_processed.
C22_CountsPartition ==
    run.pc = "done" =>
        LET r == run.report
            Unchanged == CountStatus(r.results, {"no_update"})
        IN  /\ \A k \in DOMAIN r.results :
                  r.results[k].status \in {"updated", "no_update", "failed"}
            /\ r.success_count = r.updated_count + Unchanged
            /\ r.updated_count <= r.success_count
            /\ r.updated_count + (r.success_count - r.updated_count) + r.failed_count
                  = r.total_processed
            /\ r.total_processed = Len(r.results)

\* A report with one updated, one unchanged and one failed item.
C22_Witness ==
    /\ run.pc = "done"
    /\ run.report.total_processed = 3
    /\ run.report.updated_count = 1
    /\ run.report.success_count = 2
    /\ run.report.failed_count = 1

\* C23: within a window no update_product_in_db call starts before every
\* fetch of the window has finished and its result has been collected,
\* whatever the order in which the fetches finish.
C23_WritesAfterAllCollected ==
    Len(calls) > 0 =>
        /\ \A k \in DOMAIN tasks : tasks[k].state = "collected"
        /\ Len(run.products_data) = Len(tasks)

\* The second fetch of the window finished first; the first write is open.
C23_Witness ==
    /\ Len(tasks) = 2 /\ tasks[1].sku # tasks[2].sku
    /\ Len(calls) = 1 /\ calls[1].pc = "selected"
    /\ run.products_data[1].sku = tasks[2].sku

\* Lookups of the current window that a pool thread has started.
StartedInWindow(s) ==
    Cardinality({k \in DOMAIN tasks : tasks[k].sku = s /\ tasks[k].state # "queued"})

\* C24: while a lookup of a window is queued or running, every lookup of the
\* earlier windows and groups has been reconciled and its write has finished:
\* no lookup of a later window is launched before the writes of the current
\* window are over.
C24_WindowsDoNotOverlap ==
    (\E k \in DOMAIN tasks : tasks[k].state \in {"queued", "running"})
    => /\ OpenCalls(calls) = {}
       /\ \A s \in Skus : reconciled[s] = fetched[s] - StartedInWindow(s)
       /\ Len(run.results) + Len(run.batch_results) + Len(tasks)
             <= Len(run.skus)

\* A lookup of the second group runs after the writes of the first group.
C24_Witness ==
    /\ run.i > 0
    /\ \E k \in DOMAIN tasks : tasks[k].state = "running"
    /\ \E s \in Skus : reconciled[s] >= 1
    /\ Len(run.results) >= 1

\* C25: at every moment at most max_concurrent fetches are submitted to the
\* pool and at most max_concurrent are running, for every input length and
\* batch_size; the writes are made by the main thread alone, one at a time,
\* in its update loop, while no fetch is running.
C25_BoundedFanOut ==
    /\ Len(tasks) <= run.max_concurrent
    /\ Cardinality(Running) <= run.max_concurrent
    /\ OpenCalls(calls) # {} =>
          /\ run.pc = "write"
          /\ Running = {}
          /\ Cardinality(OpenCalls(calls)) = 1

\* Both workers of the pool are busy in a group of three identifiers.
C25_Witness ==
    /\ run.max_concurrent = 2 /\ run.batch_size = 3 /\ Len(run.skus) = 4
    /\ Cardinality(Running) = 2

(***************************************************************************)
(* Further properties of fetch_product_data_with_retry (SpecFetch).        *)
(***************************************************************************)
\* C18: a lookup that fails in transport at attempt k < max_retries is
\* treated as invalid with severity high: it is followed by a sleep of
\* 1000 ms * k * 2.
C18_TransportFailureIsHigh ==
    \A k \in 1..Len(transport) :
        (transport[k] /\ k < fetcher.max_retries)
        => /\ Len(fetcher.sleeps) >= k
           /\ fetcher.sleeps[k] = 2000 * k

\* C19: when the last attempt (attempt max_retries) fails in transport the
\* call returns the canonical fallback: outOfStock, price 0, quantity 0,
\* empty brand.
C19_FinalFailureReturnsFallback ==
    (Returned /\ fetcher.max_retries >= 1
        /\ Len(transport) = fetcher.max_retries
        /\ transport[fetcher.max_retries])
    => /\ fetcher.result.availability = "outOfStock"
       /\ fetcher.result.price = 0
       /\ fetcher.result.quantity = 0
       /\ fetcher.result.brand = ""

Candidate == fetcher.last_valid_response

\* C20 as stated: from one attempt to the next the best candidate's price
\* never decreases, and an inStock candidate is never replaced by an
\* outOfStock one.
C20_PriceNeverDecreases ==
    [][(Candidate # None /\ Candidate' # None)
        => /\ Candidate'.price >= Candidate.price
           /\ Candidate.availability = "inStock" => Candidate'.availability = "inStock"]_vars

\* C20 amended: the candidate's price is lowered only when an outOfStock
\* candidate is replaced by an inStock answer, it never falls back to zero,
\* and an inStock candidate is never replaced by an outOfStock one.
C20_MonotoneUnlessRestocked ==
    [][(Candidate # None /\ Candidate' # None)
        => /\ Candidate'.price < Candidate.price
                => /\ Candidate.availability = "outOfStock"
                   /\ Candidate'.availability = "inStock"
                   /\ Candidate'.price > 0
           /\ Candidate.availability = "inStock" => Candidate'.availability = "inStock"]_vars

\* An outOfStock/$50 candidate has been replaced by an inStock/$3 answer.
C20_Witness ==
    /\ Len(history) >= 2
    /\ history[1].availability = "outOfStock" /\ history[1].price = 50
    /\ history[2].availability = "inStock" /\ history[2].price = 3
    /\ Candidate = history[2]

\* Every attempt was made and answered outOfStock with price 0: all of them
\* fail validation and none has a positive price or is inStock.
AllZeroOutOfStock ==
    /\ Returned /\ fetcher.max_retries >= 1
    /\ Len(history) = fetcher.max_retries
    /\ \A i \in 1..Len(history) :
          /\ IsInvalid(history[i])
          /\ history[i].price = 0
          /\ history[i].availability = "outOfStock"

\* C21 as stated: when every attempt fails validation and no answer had a
\* positive price or was inStock, the call returns the last attempt's answer,
\* equal in every field, brand included.
C21_ReturnsLastAnswer ==
    AllZeroOutOfStock => fetcher.result = history[Len(history)]

\* C21 amended: in that case the call returns the first attempt's answer,
\* which equals the last attempt's answer in sku, price, quantity,
\* availability and handlingTime, while the brand is the first attempt's.
C21_ReturnsFirstAnswer ==
    AllZeroOutOfStock =>
        LET last == history[Len(history)]
        IN  /\ fetcher.result = history[1]
            /\ fetcher.result = [last EXCEPT !.brand = history[1].brand]

\* Three outOfStock/$0 answers, the first with a brand, the last a transport
\* failure with the empty brand.
C21_Witness ==
    /\ AllZeroOutOfStock /\ fetcher.max_retries = 3
    /\ history[1].brand = "Acme" /\ history[3].brand = ""
    /\ transport[3]
    /\ fetcher.result.brand = "Acme"

(***************************************************************************)
(* Properties of process_in_batches and its steps (SpecFeed).              *)
(***************************************************************************)
ResetCalled == feed.reset # "not called"

\* C12: reset_updated_flag is called only if the polling of every slice
\* ended with processing status DONE; a slice that ended CANCELLED, FATAL or
\* TIMED_OUT, or before polling, prevents the reset.
C12_ResetOnlyIfAllDone ==
    ResetCalled => \A k \in DOMAIN feed.log : feed.log[k].end = "DONE"

\* C13: baixar_relatorio is entered for a slice only when the polling of
\* that slice ended with processing status DONE.
C13_ReportOnlyAfterDone ==
    feed.pc = "report" => PollEnd(feed.feed_result) = "DONE"

\* C14: once the loop over the slices is entered, every slice is driven
\* (one log entry per slice) whatever happened to the earlier ones, and a
\* slice that failed in build, document creation, upload, submission or
\* polling makes the run return failure.
C14_SliceFailureMarksRunFailed ==
    (feed.pc = "done" /\ feed.batch_num >= 1)
    => /\ Len(feed.log) = feed.num_batches
       /\ (\E k \in DOMAIN feed.log : feed.log[k].end # "DONE") => ~feed.result

\* C15: verificar_status_feed makes at most 20 status requests, every
\* request (a 429, an unexpected status and an exception included) uses one
\* attempt, the first response reporting DONE, CANCELLED or FATAL ends the
\* call with that status, and the call yields None (TIMED_OUT) exactly when
\* 20 requests were made and none reported a terminal status.
C15_PollingBounded ==
    feed.pc = "poll" =>
        LET p == feed.poll
        IN  /\ p.requests <= 20
            /\ p.requests = p.attempt
            /\ p.refused <= p.requests
            /\ p.terminals <= 1
            /\ p.pc = "loop" => (p.terminals = 0 /\ p.requests < 20)
            /\ p.pc = "returned" =>
                  IF p.terminals = 1
                  THEN /\ p.feed_result # None
                       /\ p.feed_result.processingStatus = p.last
                       /\ p.last \in {"DONE", "CANCELLED", "FATAL"}
                  ELSE p.feed_result = None /\ p.requests = 20

\* Every one of the 20 requests was refused: TIMED_OUT by rate limiting.
C15_Witness ==
    /\ feed.pc = "poll" /\ feed.poll.pc = "returned"
    /\ feed.poll.feed_result = None
    /\ feed.poll.refused = 20
    /\ feed.poll.last = "throttled"

Retried(sub) == IF sub.pc = "returned" THEN Len(sub.responses) - 1 ELSE Len(sub.responses)

\* C16: in enviar_feed every 429 received before the last allowed attempt
\* is followed by one wait of the Retry-After seconds (300 without the
\* header) and then one more request; only a 429 or an exception is
\* retried; the number of requests never exceeds MAX_RETRIES.
C16_SubmitRetries ==
    feed.pc = "submit" =>
        LET sub == feed.sub
        IN  /\ sub.requests <= feed.max_retries
            /\ sub.requests = Len(sub.responses)
            /\ Len(sub.sleeps) = Retried(sub)
            /\ \A k \in 1..Retried(sub) :
                  /\ sub.responses[k].kind \in {"throttled", "exception"}
                  /\ sub.responses[k].kind = "throttled" =>
                        /\ sub.sleeps[k].why = "Retry-After"
                        /\ sub.sleeps[k].secs =
                              IF sub.responses[k].has_header
                              THEN sub.responses[k].retry_after ELSE 300
            /\ \A k \in 1..Len(sub.responses) :
                  (sub.responses[k].kind = "throttled" /\ k < feed.max_retries)
                     => k <= Retried(sub)
            /\ (sub.pc = "returned" /\ sub.feed_id) =>
                  sub.responses[Len(sub.responses)] = [kind |-> "accepted", has_id |-> TRUE]

\* A 429 with Retry-After: 5, one wait of 5 s, one retry, accepted.
C16_Witness ==
    /\ feed.pc = "submit" /\ feed.sub.pc = "returned" /\ feed.sub.feed_id
    /\ feed.sub.requests = 2
    /\ feed.sub.responses[1] = [kind |-> "throttled", has_header |-> TRUE, retry_after |-> 5]
    /\ feed.sub.sleeps = <<[why |-> "Retry-After", secs |-> 5]>>

\* C17: with zero changed rows the driver reports success.
C17_EmptyIsSuccess ==
    (feed.pc = "done" /\ feed.n = 0) => feed.result = TRUE

StepOrder == <<"create", "upload", "submit", "poll">>

\* The finished steps are an initial part of create, upload, submit, poll,
\* each made once, and only the last of them may have failed.
WellOrdered(steps) ==
    /\ Len(steps) <= Len(StepOrder)
    /\ \A k \in DOMAIN steps :
          /\ steps[k].call = StepOrder[k]
          /\ k < Len(steps) => steps[k].ok

\* Number of finished steps when the driver is at `pc` inside a slice.
StepsBefore(pc) ==
    CASE pc = "create" -> 0
      [] pc = "upload" -> 1
      [] pc = "submit" -> 2
      [] pc = "poll" -> 3
      [] pc = "report" -> 4
      [] OTHER -> 0

C26_StepsInOrder ==
    /\ WellOrdered(feed.steps)
    /\ \A k \in DOMAIN feed.steps : feed.steps[k].ok
    /\ Len(feed.steps) = StepsBefore(feed.pc)
    /\ \A n \in DOMAIN feed.log :
          LET e == feed.log[n]
          IN  /\ WellOrdered(e.steps)
              /\ e.end = "build" => e.steps = << >>
              /\ e.end \in {"create", "upload", "submit"} =>
                    /\ e.steps[Len(e.steps)] = Step(e.end, FALSE)
                    /\ ~e.report
    /\ (feed.pc = "submit" /\ feed.sub.pc = "returned") =>
          LET last == feed.sub.responses[Len(feed.sub.responses)]
          IN  (last.kind = "rejected" \/ last = [kind |-> "accepted", has_id |-> FALSE])
                 => ~feed.sub.feed_id

C26_NoStepAfterFailedSubmit ==
    /\ (feed.pc = "submit" /\ feed.sub.pc = "returned" /\ ~feed.sub.feed_id)
          => (feed'.pc = "slice" /\ feed'.poll = PollStart /\ ~feed'.success)
    /\ (feed.pc # "poll" /\ feed'.pc = "poll")
          => (feed.pc = "submit" /\ feed.sub.feed_id)

\* C26: within a slice the steps run in the order create document, upload,
\* submit, poll, each step call made once; a failed document creation (not
\* 201, or raising), a failed upload (not 200) and a submission that is
\* rejected or yields no feed id end the slice: no later step is made and
\* the driver does not repeat the failed creation or upload.
C26_FailedStepEndsSlice ==
    []C26_StepsInOrder /\ [][C26_NoStepAfterFailedSubmit]_vars

\* The first slice ended at a failed document creation, the second at a
\* failed submission after a successful creation and upload.
C26_Witness ==
    /\ Len(feed.log) = 2
    /\ feed.log[1].steps = <<Step("create", FALSE)>>
    /\ feed.log[2].steps =
          <<Step("create", TRUE), Step("upload", TRUE), Step("submit", FALSE)>>

\* C27: every 429 received during result retrieval, by the descriptor
\* request or by the content download, is followed by a wait and a fresh
\* retrieval attempt: retrieval never ends on a 429.
C27_EveryThrottleRetried ==
    (feed.pc = "report" /\ feed.report.pc = "returned")
    => feed.report.response # "throttled"

\* C28: when a slice of the run failed (it did not end in DONE),
\* reset_updated_flag is not called and every extracted row keeps its
\* marker, the rows of the slices that ended in DONE included.
C28_FailureKeepsMarkers ==
    (feed.pc = "done" /\ \E k \in DOMAIN feed.log : feed.log[k].end # "DONE")
    => (~ResetCalled /\ feed.pending)

\* C29: once the slices have been driven, the result is success exactly
\* when the poll result of every slice carried a result document id,
\* whatever baixar_relatorio returned, and reset_updated_flag is called
\* exactly then, its outcome not changing the result.
C29_ResultIgnoresRetrievalAndReset ==
    (feed.pc = "done" /\ feed.batch_num >= 1)
    => /\ feed.result = (\A k \in DOMAIN feed.log : feed.log[k].has_doc)
       /\ ResetCalled = feed.result
       /\ feed.pending = (feed.reset # "committed")

\* Success although baixar_relatorio returned None and the reset raised.
C29_Witness ==
    /\ feed.pc = "done" /\ feed.result
    /\ Len(feed.log) = 1
    /\ feed.log[1].report /\ ~feed.log[1].retrieved
    /\ feed.reset = "exception"
    /\ feed.pending

====
